---- MODULE Spec2Model ----
(***************************************************************************)
(* svdconv-check: the SVDConv output parser (src/src/svdconv.ts), the      *)
(* annotation batcher and the check-run uploader (src/src/main.ts).        *)
(*                                                                         *)
(* Text is modelled as sequences of one-character strings, so that the     *)
(* header pattern, split, trim, toLowerCase and Number are computed        *)
(* character by character as the JavaScript built-ins compute them.        *)
(***************************************************************************)
EXTENDS Integers, Sequences, FiniteSets, Bags, TLC

(***************************************************************************)
(* Bounds of the model.                                                    *)
(***************************************************************************)
\* longest buffer assembled freely from the corpus lines
MaxLines == 3
\* the generated buffers hold about k * 50 diagnostic blocks, k <= MaxBatches
MaxBatches == 2
\* number of getAnnotations calls the batcher driver makes on an empty mapping
MaxEmptyCalls == 2

(***************************************************************************)
(* Values of JavaScript that have no TLA+ counterpart.  A number parsed by *)
(* the parser comes from \d+ and is never negative, so two negative        *)
(* integers stand for NaN and for a field that was never assigned.         *)
(***************************************************************************)
NaN == -1
Undefined == -2
\* an unassigned string field or an unmatched capture group; a matched group
\* of MESSAGE_PATTERN is never empty
UndefinedStr == <<>>

(***************************************************************************)
(* Characters.                                                             *)
(***************************************************************************)
UpperCase == <<"A","B","C","D","E","F","G","H","I","J","K","L","M","N","O","P","Q","R","S","T","U","V","W","X","Y","Z">>
LowerCase == <<"a","b","c","d","e","f","g","h","i","j","k","l","m","n","o","p","q","r","s","t","u","v","w","x","y","z">>
DigitChars == <<"0","1","2","3","4","5","6","7","8","9">>

\* \d of the regular expression
IsDigit(c) == \E i \in 1..10 : DigitChars[i] = c
\* \s of the regular expression, and the characters trim() strips
IsSpace(c) == c \in {" ", "\t", "\n", "\r", "\f"}

\* String.prototype.toLowerCase, one character
LowerChar(c) ==
  IF \E i \in 1..26 : UpperCase[i] = c
  THEN LowerCase[CHOOSE i \in 1..26 : UpperCase[i] = c]
  ELSE c

\* String.prototype.toLowerCase
toLowerCase(s) == [i \in 1..Len(s) |-> LowerChar(s[i])]

\* String.prototype.startsWith
startsWith(s, p) == Len(s) >= Len(p) /\ SubSeq(s, 1, Len(p)) = p

\* s has the literal p at position i
HasAt(s, i, p) == i + Len(p) - 1 <= Len(s) /\ SubSeq(s, i, i + Len(p) - 1) = p

\* a trim that strips the leading blanks only
trim_LeadingOnly(s) ==
  LET keep == {i \in 1..Len(s) : ~IsSpace(s[i])}
  IN IF keep = {} THEN <<>>
     ELSE SubSeq(s, CHOOSE i \in keep : \A j \in keep : i <= j, Len(s))

\* String.prototype.trim
trim(s) ==
  LET keep == {i \in 1..Len(s) : ~IsSpace(s[i])}
  IN IF keep = {} THEN <<>>
     ELSE LET lo == CHOOSE i \in keep : \A j \in keep : i <= j
              hi == CHOOSE i \in keep : \A j \in keep : i >= j
          IN SubSeq(s, lo, hi)

\* value of one decimal digit
DigitValue(c) == (CHOOSE i \in 1..10 : DigitChars[i] = c) - 1

RECURSIVE DecimalValue(_)
DecimalValue(ds) ==
  IF ds = <<>> THEN 0
  ELSE 10 * DecimalValue(SubSeq(ds, 1, Len(ds) - 1)) + DigitValue(ds[Len(ds)])

\* Number(v) for v a capture group of digits or undefined
Number(v) == IF v = UndefinedStr THEN NaN ELSE DecimalValue(v)

\* String.prototype.split("\n")
split(buffer) ==
  LET n == Len(buffer)
      \* in ascending order: 0, the positions of the newline characters, n + 1
      cuts == SelectSeq([i \in 1..(n + 2) |-> i - 1],
                        LAMBDA c : c = 0 \/ c = n + 1 \/ buffer[c] = "\n")
  IN [k \in 1..(Len(cuts) - 1) |-> SubSeq(buffer, cuts[k] + 1, cuts[k + 1] - 1)]

(***************************************************************************)
(* MESSAGE_PATTERN:                                                        *)
(*   /^\*\*\* (INFO|ERROR|WARNING) (M\d+): \S+( \(Line (\d+)\))?/          *)
(***************************************************************************)
\* end (exclusive) of the longest run of characters satisfying the class at i
DigitRunEnd(s, i) ==
  CHOOSE j \in i..(Len(s) + 1) :
    /\ \A k \in i..(j - 1) : IsDigit(s[k])
    /\ j = Len(s) + 1 \/ ~IsDigit(s[j])

NonSpaceRunEnd(s, i) ==
  CHOOSE j \in i..(Len(s) + 1) :
    /\ \A k \in i..(j - 1) : ~IsSpace(s[k])
    /\ j = Len(s) + 1 \/ IsSpace(s[j])

Severities == << <<"I","N","F","O">>, <<"E","R","R","O","R">>, <<"W","A","R","N","I","N","G">> >>

NoMatch == [ok |-> FALSE, g1 |-> UndefinedStr, g2 |-> UndefinedStr, g4 |-> UndefinedStr]

\* line.match(MESSAGE_PATTERN): ok is FALSE for null, g1, g2, g4 are match[1],
\* match[2], match[4].  Each quantifier is greedy; a shorter run of \d+ is
\* followed by a digit and cannot meet the ':' or ')' the pattern wants next,
\* and the optional group is given up before \S+ is ever shortened.
MESSAGE_PATTERN(line) ==
  IF ~HasAt(line, 1, <<"*","*","*"," ">>) THEN NoMatch
  ELSE IF ~\E a \in 1..3 : HasAt(line, 5, Severities[a]) THEN NoMatch
  ELSE
    LET a == CHOOSE a \in 1..3 : HasAt(line, 5, Severities[a])
        p1 == 5 + Len(Severities[a])
    IN IF ~HasAt(line, p1, <<" ","M">>) THEN NoMatch
       ELSE
         LET p2 == DigitRunEnd(line, p1 + 2)
         IN IF p2 = p1 + 2 \/ ~HasAt(line, p2, <<":"," ">>) THEN NoMatch
            ELSE
              LET p3 == NonSpaceRunEnd(line, p2 + 2)
              IN IF p3 = p2 + 2 THEN NoMatch
                 ELSE
                   LET q == p3 + 7
                       q2 == DigitRunEnd(line, q)
                       suffix == /\ HasAt(line, p3, <<" ","(","L","i","n","e"," ">>)
                                 /\ q2 > q
                                 /\ HasAt(line, q2, <<")">>)
                   IN [ok |-> TRUE,
                       g1 |-> Severities[a],
                       g2 |-> SubSeq(line, p1 + 1, p2 - 1),
                       g4 |-> IF suffix THEN SubSeq(line, q, q2 - 1) ELSE UndefinedStr]

(***************************************************************************)
(* SVDConvParser (src/src/svdconv.ts).                                     *)
(***************************************************************************)
NOISE == "NOISE"
MESSAGE_LINE == "MESSAGE_LINE"
DESCRIPTION_LINE == "DESCRIPTION_LINE"

\* new SVDConvParser(): _level, _code and _line are not assigned
NewParser ==
  [state |-> NOISE,
   stats |-> [notes |-> 0, warnings |-> 0, errors |-> 0],
   level |-> UndefinedStr, code |-> UndefinedStr, line |-> Undefined]

\* counters that take a warning for an error
CountLevel_WarningAsError(stats, level) ==
  IF level = <<"i","n","f","o">> THEN [stats EXCEPT !.notes = @ + 1]
  ELSE [stats EXCEPT !.errors = @ + 1]

\* counters that leave the informational headers out
CountLevel_SkipInfo(stats, level) ==
  IF level = <<"e","r","r","o","r">> THEN [stats EXCEPT !.errors = @ + 1]
  ELSE IF level = <<"w","a","r","n","i","n","g">> THEN [stats EXCEPT !.warnings = @ + 1]
  ELSE stats

\* the three counters after a header of the given (lower-case) level
CountLevel(stats, level) ==
  IF level = <<"i","n","f","o">> THEN [stats EXCEPT !.notes = @ + 1]
  ELSE IF level = <<"e","r","r","o","r">> THEN [stats EXCEPT !.errors = @ + 1]
  ELSE IF level = <<"w","a","r","n","i","n","g">> THEN [stats EXCEPT !.warnings = @ + 1]
  ELSE stats

\* a parseMessage that passes over a marked line the pattern does not match
parseMessage_SkipUnmatched(p, line) ==
  LET st == IF p.state = NOISE /\ startsWith(line, <<"*","*","*">>)
            THEN MESSAGE_LINE ELSE p.state
  IN IF st = MESSAGE_LINE
     THEN LET match == MESSAGE_PATTERN(line)
          IN IF ~match.ok
             THEN [threw |-> FALSE, parser |-> [p EXCEPT !.state = NOISE], emit |-> <<>>]
             ELSE LET level == toLowerCase(match.g1)
                  IN [threw |-> FALSE,
                      parser |-> [state |-> DESCRIPTION_LINE,
                                  stats |-> CountLevel(p.stats, level),
                                  level |-> level,
                                  code |-> match.g2,
                                  line |-> Number(match.g4)],
                      emit |-> <<>>]
     ELSE IF st = DESCRIPTION_LINE
     THEN [threw |-> FALSE,
           parser |-> [p EXCEPT !.state = NOISE],
           emit |-> << [level |-> p.level, code |-> p.code, line |-> p.line,
                        message |-> trim(line)] >>]
     ELSE [threw |-> FALSE, parser |-> p, emit |-> <<>>]

\* a parseMessage that looks for the marker in every state
parseMessage_HeaderFirst(p, line) ==
  LET st == IF startsWith(line, <<"*","*","*">>)
            THEN MESSAGE_LINE ELSE p.state
  IN IF st = MESSAGE_LINE
     THEN LET match == MESSAGE_PATTERN(line)
          IN IF ~match.ok
             THEN [threw |-> TRUE, parser |-> [p EXCEPT !.state = st], emit |-> <<>>]
             ELSE LET level == toLowerCase(match.g1)
                  IN [threw |-> FALSE,
                      parser |-> [state |-> DESCRIPTION_LINE,
                                  stats |-> CountLevel(p.stats, level),
                                  level |-> level,
                                  code |-> match.g2,
                                  line |-> Number(match.g4)],
                      emit |-> <<>>]
     ELSE IF st = DESCRIPTION_LINE
     THEN [threw |-> FALSE,
           parser |-> [p EXCEPT !.state = NOISE],
           emit |-> << [level |-> p.level, code |-> p.code, line |-> p.line,
                        message |-> trim(line)] >>]
     ELSE [threw |-> FALSE, parser |-> p, emit |-> <<>>]

\* a parseMessage that forgets the captured header on a line of noise
parseMessage_NoiseResets(p, line) ==
  LET st == IF p.state = NOISE /\ startsWith(line, <<"*","*","*">>)
            THEN MESSAGE_LINE ELSE p.state
  IN IF st = MESSAGE_LINE
     THEN LET match == MESSAGE_PATTERN(line)
          IN IF ~match.ok
             THEN [threw |-> TRUE, parser |-> [p EXCEPT !.state = st], emit |-> <<>>]
             ELSE LET level == toLowerCase(match.g1)
                  IN [threw |-> FALSE,
                      parser |-> [state |-> DESCRIPTION_LINE,
                                  stats |-> CountLevel(p.stats, level),
                                  level |-> level,
                                  code |-> match.g2,
                                  line |-> Number(match.g4)],
                      emit |-> <<>>]
     ELSE IF st = DESCRIPTION_LINE
     THEN [threw |-> FALSE,
           parser |-> [p EXCEPT !.state = NOISE],
           emit |-> << [level |-> p.level, code |-> p.code, line |-> p.line,
                        message |-> trim(line)] >>]
     ELSE [threw |-> FALSE, parser |-> [NewParser EXCEPT !.stats = p.stats], emit |-> <<>>]

\* parseMessage(line) on parser p: the parser afterwards, the Message returned
\* (emit is <<>> for null, <<m>> for a Message m), and whether the call threw
\* (match is null and match[1] raises a TypeError).
parseMessage(p, line) ==
  LET st == IF p.state = NOISE /\ startsWith(line, <<"*","*","*">>)
            THEN MESSAGE_LINE ELSE p.state
  IN IF st = MESSAGE_LINE
     THEN LET match == MESSAGE_PATTERN(line)
          IN IF ~match.ok
             THEN [threw |-> TRUE, parser |-> [p EXCEPT !.state = st], emit |-> <<>>]
             ELSE LET level == toLowerCase(match.g1)
                  IN [threw |-> FALSE,
                      parser |-> [state |-> DESCRIPTION_LINE,
                                  stats |-> CountLevel(p.stats, level),
                                  level |-> level,
                                  code |-> match.g2,
                                  line |-> Number(match.g4)],
                      emit |-> <<>>]
     ELSE IF st = DESCRIPTION_LINE
     THEN [threw |-> FALSE,
           parser |-> [p EXCEPT !.state = NOISE],
           emit |-> << [level |-> p.level, code |-> p.code, line |-> p.line,
                        message |-> trim(line)] >>]
     ELSE [threw |-> FALSE, parser |-> p, emit |-> <<>>]

(***************************************************************************)
(* Map<number, Array<Message>>: the entries in insertion order.  Keys are  *)
(* compared by SameValueZero, under which NaN equals NaN.                  *)
(***************************************************************************)
MapHas(m, k) == \E i \in 1..Len(m) : m[i].key = k

\* Map.prototype.get(k) ?? []
MapGetOrEmpty(m, k) ==
  IF MapHas(m, k) THEN m[CHOOSE i \in 1..Len(m) : m[i].key = k].ary ELSE <<>>

\* Map.prototype.set
MapSet(m, k, ary) ==
  IF MapHas(m, k)
  THEN [i \in 1..Len(m) |-> IF m[i].key = k THEN [key |-> k, ary |-> ary] ELSE m[i]]
  ELSE Append(m, [key |-> k, ary |-> ary])

\* Map.prototype.delete
MapDelete(m, k) == SelectSeq(m, LAMBDA e : e.key # k)

\* a grouping whose set() stores a copy of the array: the push that follows
\* the set() of a new key does not show in the map
Group_SetCopies(m, message) ==
  LET ary == MapGetOrEmpty(m, message.line)
  IN IF Len(ary) = 0
     THEN MapSet(m, message.line, ary)
     ELSE [i \in 1..Len(m) |->
             IF m[i].key = message.line
             THEN [key |-> m[i].key, ary |-> Append(m[i].ary, message)]
             ELSE m[i]]

\* the body of the loop of SVDConvParser.parseMessages for one emitted Message:
\* ary is the array object stored in the map, so the push shows in the map
\* whether or not set() was called
Group(m, message) ==
  LET ary == MapGetOrEmpty(m, message.line)
  IN IF Len(ary) = 0
     THEN MapSet(m, message.line, Append(ary, message))
     ELSE [i \in 1..Len(m) |->
             IF m[i].key = message.line
             THEN [key |-> m[i].key, ary |-> Append(m[i].ary, message)]
             ELSE m[i]]

(***************************************************************************)
(* getAnnotations (src/src/main.ts).                                       *)
(***************************************************************************)
\* a capacity one short of the limit
MaxAnnotations_49 == 50 - 1

\* capacity of one batch
MaxAnnotations == 50

\* a test that never recognises NaN
isNaN_Never(k) == FALSE

\* isNaN(key)
isNaN(k) == k = NaN

AnnotationLevel(level) ==
  IF level = <<"i","n","f","o">> THEN "notice"
  ELSE IF level = <<"w","a","r","n","i","n","g">> THEN "warning"
  ELSE "error"

\* the annotation pushed for msg popped from the group with the given key
Annotation(svdPath_, key, msg) ==
  LET start_line == IF isNaN(key) THEN 0 ELSE key
  IN [path |-> svdPath_,
      start_line |-> start_line,
      end_line |-> start_line,
      annotation_level |-> AnnotationLevel(msg.level),
      message |-> msg.code \o <<":"," ">> \o msg.message]

\* a loop that goes on while the list holds 50 or fewer annotations
RECURSIVE AnnotationsLoop_OffByOne(_, _, _)
AnnotationsLoop_OffByOne(svdPath_, annotations, m) ==
  IF ~(Len(annotations) <= MaxAnnotations /\ Len(m) > 0)
  THEN [annotations |-> annotations, messages |-> m]
  ELSE LET key == m[1].key
           ary == m[1].ary
           popped == IF Len(ary) > 0 THEN SubSeq(ary, 1, Len(ary) - 1) ELSE ary
           pushed == IF Len(ary) > 0
                     THEN Append(annotations, Annotation(svdPath_, key, ary[Len(ary)]))
                     ELSE annotations
           m2 == IF Len(popped) = 0
                 THEN MapDelete(m, key)
                 ELSE [i \in 1..Len(m) |->
                         IF i = 1 THEN [key |-> key, ary |-> popped] ELSE m[i]]
       IN AnnotationsLoop_OffByOne(svdPath_, pushed, m2)

\* a loop that deletes a group after its first pop, whatever is left in it
RECURSIVE AnnotationsLoop_DropGroup(_, _, _)
AnnotationsLoop_DropGroup(svdPath_, annotations, m) ==
  IF ~(Len(annotations) < MaxAnnotations /\ Len(m) > 0)
  THEN [annotations |-> annotations, messages |-> m]
  ELSE LET key == m[1].key
           ary == m[1].ary
           pushed == IF Len(ary) > 0
                     THEN Append(annotations, Annotation(svdPath_, key, ary[Len(ary)]))
                     ELSE annotations
       IN AnnotationsLoop_DropGroup(svdPath_, pushed, MapDelete(m, key))

\* the while loop of getAnnotations
RECURSIVE AnnotationsLoop(_, _, _)
AnnotationsLoop(svdPath_, annotations, m) ==
  IF ~(Len(annotations) < MaxAnnotations /\ Len(m) > 0)
  THEN [annotations |-> annotations, messages |-> m]
  ELSE LET key == m[1].key
           ary == m[1].ary
           popped == IF Len(ary) > 0 THEN SubSeq(ary, 1, Len(ary) - 1) ELSE ary
           pushed == IF Len(ary) > 0
                     THEN Append(annotations, Annotation(svdPath_, key, ary[Len(ary)]))
                     ELSE annotations
           m2 == IF Len(popped) = 0
                 THEN MapDelete(m, key)
                 ELSE [i \in 1..Len(m) |->
                         IF i = 1 THEN [key |-> key, ary |-> popped] ELSE m[i]]
       IN AnnotationsLoop(svdPath_, pushed, m2)

\* a getAnnotations that returns the list even when it is empty
getAnnotations_EmptyList(svdPath_, m) ==
  LET r == AnnotationsLoop(svdPath_, <<>>, m)
  IN [null |-> FALSE,
      annotations |-> r.annotations,
      messages |-> r.messages]

\* getAnnotations(svdPath, messages): the value returned (null, or the list)
\* and the mapping as the call leaves it
getAnnotations(svdPath_, m) ==
  LET r == AnnotationsLoop(svdPath_, <<>>, m)
  IN [null |-> Len(r.annotations) = 0,
      annotations |-> r.annotations,
      messages |-> r.messages]

(***************************************************************************)
(* Inputs: what the external tool may print.  A buffer is described by the *)
(* lines it is assembled from; each line comes with what it is (kind) and, *)
(* for a header, with the severity keyword, the code and the number N of   *)
(* its '(Line N)' suffix as written in the text (NaN when it has none).    *)
(* These are the facts the properties compare the parser's output with.    *)
(***************************************************************************)
NoFields == [severity |-> <<>>, code |-> <<>>, suffix |-> NaN, trimmed |-> <<>>]

Corpus ==
  << \* *** WARNING M305: Field (Line 12)
     [text |-> <<"*","*","*"," ","W","A","R","N","I","N","G"," ","M","3","0","5",":"," ","F","i","e","l","d"," ","(","L","i","n","e"," ","1","2",")">>,
      kind |-> "header", severity |-> <<"W","A","R","N","I","N","G">>,
      code |-> <<"M","3","0","5">>, suffix |-> 12, trimmed |-> <<>>],
     \* *** WARNING M305: Field 'foo' (Line 12)
     [text |-> <<"*","*","*"," ","W","A","R","N","I","N","G"," ","M","3","0","5",":"," ","F","i","e","l","d"," ","'","f","o","o","'"," ","(","L","i","n","e"," ","1","2",")">>,
      kind |-> "header", severity |-> <<"W","A","R","N","I","N","G">>,
      code |-> <<"M","3","0","5">>, suffix |-> 12, trimmed |-> <<>>],
     \* *** ERROR M1: x
     [text |-> <<"*","*","*"," ","E","R","R","O","R"," ","M","1",":"," ","x">>,
      kind |-> "header", severity |-> <<"E","R","R","O","R">>,
      code |-> <<"M","1">>, suffix |-> NaN, trimmed |-> <<>>],
     \* *** INFO M22: y (Line 7)
     [text |-> <<"*","*","*"," ","I","N","F","O"," ","M","2","2",":"," ","y"," ","(","L","i","n","e"," ","7",")">>,
      kind |-> "header", severity |-> <<"I","N","F","O">>,
      code |-> <<"M","2","2">>, suffix |-> 7, trimmed |-> <<>>],
     \* a description line with blanks around it
     [text |-> <<" "," ","t","o","o"," ","w","i","d","e","."," ">>,
      kind |-> "description", severity |-> <<>>, code |-> <<>>, suffix |-> NaN,
      trimmed |-> <<"t","o","o"," ","w","i","d","e",".">>],
     \* other output of the tool
     [text |-> <<"n","o","i","s","e">>,
      kind |-> "noise", severity |-> <<>>, code |-> <<>>, suffix |-> NaN,
      trimmed |-> <<"n","o","i","s","e">>],
     \* an empty line
     [text |-> <<>>,
      kind |-> "empty", severity |-> <<>>, code |-> <<>>, suffix |-> NaN, trimmed |-> <<>>],
     \* *** oops: the marker without a header behind it
     [text |-> <<"*","*","*"," ","o","o","p","s">>,
      kind |-> "malformed", severity |-> <<>>, code |-> <<>>, suffix |-> NaN,
      trimmed |-> <<"*","*","*"," ","o","o","p","s">>] >>

\* decimal digits of a natural number
RECURSIVE ToDigits(_)
ToDigits(n) ==
  IF n < 10 THEN <<DigitChars[n + 1]>>
  ELSE ToDigits(n \div 10) \o <<DigitChars[(n % 10) + 1]>>

\* the i-th generated block: *** <severity> M<i>: w (Line <i % mod>), then ' d<i> '
BlockHeader(i, mod) ==
  LET sev == Severities[(i % 3) + 1]
  IN [text |-> <<"*","*","*"," ">> \o sev \o <<" ","M">> \o ToDigits(i)
               \o <<":"," ","w"," ","(","L","i","n","e"," ">> \o ToDigits(i % mod) \o <<")">>,
      kind |-> "header", severity |-> sev, code |-> <<"M">> \o ToDigits(i),
      suffix |-> i % mod, trimmed |-> <<>>]

BlockDescription(i) ==
  [text |-> <<" ","d">> \o ToDigits(i) \o <<" ">>,
   kind |-> "description", severity |-> <<>>, code |-> <<>>, suffix |-> NaN,
   trimmed |-> <<"d">> \o ToDigits(i)]

\* sizes just below, at and just above the multiples of the batch capacity,
\* and the 20, 70, 120 of the specification's example
BlockCounts ==
  {n \in {k * 50 + d : k \in 0..MaxBatches, d \in {-1, 0, 1, 20}} : n > 0}

\* how many different line numbers the generated blocks use
LineMods == {1, 3, 1000}

RECURSIVE SeqsUpTo(_)
SeqsUpTo(n) ==
  IF n = 0 THEN {<<>>}
  ELSE LET shorter == SeqsUpTo(n - 1)
       IN shorter \cup {Append(q, c) : q \in shorter, c \in 1..Len(Corpus)}

\* an input: corpus lines in any order, or generated blocks; nl tells whether
\* the buffer ends with a newline character
Inputs ==
  [ids : SeqsUpTo(MaxLines), blocks : {0}, mod : {1}, nl : BOOLEAN]
  \cup [ids : {<<>>}, blocks : BlockCounts, mod : LineMods, nl : BOOLEAN]

\* number of lines an input is assembled from
InputLength(d) == Len(d.ids) + 2 * d.blocks

\* the i-th line an input is assembled from
LineOf(d, i) ==
  IF i <= Len(d.ids) THEN Corpus[d.ids[i]]
  ELSE LET j == i - Len(d.ids)
       IN IF j % 2 = 1 THEN BlockHeader((j + 1) \div 2, d.mod)
          ELSE BlockDescription(j \div 2)

\* the lines an input is assembled from: the corpus lines, then the blocks
InputLines(d) ==
  [i \in 1..Len(d.ids) |-> LineOf(d, i)]
    \o [j \in 1..(2 * d.blocks) |-> LineOf(d, Len(d.ids) + j)]

\* the texts of ls[lo..hi] with a newline character between neighbours
RECURSIVE Join(_, _, _)
Join(ls, lo, hi) ==
  IF lo > hi THEN <<>>
  ELSE IF lo = hi THEN ls[lo].text
  ELSE LET mid == (lo + hi) \div 2
       IN Join(ls, lo, mid) \o <<"\n">> \o Join(ls, mid + 1, hi)

\* the text the tool writes for an input
Buffer(d) ==
  LET ls == InputLines(d)
  IN Join(ls, 1, Len(ls)) \o (IF d.nl THEN <<"\n">> ELSE <<>>)

SvdPaths == {"a.svd", "b.svd"}
Platforms == {"linux", "win32", "darwin"}

(***************************************************************************)
(* State.                                                                  *)
(***************************************************************************)
VARIABLES
  pc,        \* where main is: install, run, parse, create, loop, complete,
             \* cancel, done (main returned), threw (main's promise rejected);
             \* drain is the position of the batcher driver
  input,     \* the input the tool's output was assembled from
  svdPath,   \* core.getInput('path')
  stderr,    \* TRUE when the tool wrote to standard error
  lines,     \* buffer.split("\n") in SVDConvParser.parseMessages
  idx,       \* index of the next element of lines the for loop takes
  parser,    \* the SVDConvParser: state, stats, _level, _code, _line
  messages,  \* result.messages, the Map<number, Array<Message>>
  emitted,   \* the Messages parseMessage has returned so far, in order
  batches,   \* the values getAnnotations has returned so far, in order
  calls,     \* the check-run API calls issued so far, in order
  failed,    \* TRUE once core.setFailed was called
  first      \* the Result of an earlier aggregation of the same buffer

vars == <<pc, input, svdPath, stderr, lines, idx, parser, messages, emitted,
          batches, calls, failed, first>>

Init ==
  /\ pc = "install"
  /\ input = [ids |-> <<>>, blocks |-> 0, mod |-> 1, nl |-> FALSE]
  /\ svdPath = ""
  /\ stderr = FALSE
  /\ lines = <<>>
  /\ idx = 1
  /\ parser = NewParser
  /\ messages = <<>>
  /\ emitted = <<>>
  /\ batches = <<>>
  /\ calls = <<>>
  /\ failed = FALSE
  /\ first = [done |-> FALSE, messages |-> <<>>, stats |-> NewParser.stats]

(***************************************************************************)
(* main (src/src/main.ts).                                                 *)
(***************************************************************************)
\* install(): an unsupported platform is reported and thrown
Install ==
  /\ pc = "install"
  /\ \E platform \in Platforms :
       IF platform # "win32" /\ platform # "linux"
       THEN failed' = TRUE /\ pc' = "threw"
       ELSE failed' = failed /\ pc' = "run"
  /\ UNCHANGED <<first, input, svdPath, stderr, lines, idx, parser, messages, emitted,
                 batches, calls>>

\* a run that parses standard output whatever standard error holds
Run_IgnoreStderr ==
  /\ pc = "run"
  /\ \E d \in Inputs, path \in SvdPaths, err \in BOOLEAN :
       /\ input' = d
       /\ svdPath' = path
       /\ stderr' = err
       /\ pc' = "parse"
       /\ parser' = NewParser
       /\ lines' = split(Buffer(d))
       /\ idx' = 1
       /\ messages' = <<>>
  /\ UNCHANGED <<first, emitted, batches, calls, failed>>

\* main reads its inputs and calls SVDConv.run: the tool runs; any text on
\* standard error makes run return null, and main then skips the upload and
\* returns; otherwise a new parser is made and parseMessages splits the buffer
Run ==
  /\ pc = "run"
  /\ \E d \in Inputs, path \in SvdPaths, err \in BOOLEAN :
       /\ input' = d
       /\ svdPath' = path
       /\ stderr' = err
       /\ IF err
          THEN /\ pc' = "done"
               /\ UNCHANGED <<lines, idx, parser, messages>>
          ELSE /\ pc' = "parse"
               /\ parser' = NewParser
               /\ lines' = split(Buffer(d))
               /\ idx' = 1
               /\ messages' = <<>>
  /\ UNCHANGED <<first, emitted, batches, calls, failed>>

\* one iteration of the for loop of SVDConvParser.parseMessages; after the
\* last line the Result is returned to the caller, which goes on at next_pc
ParseLine(next_pc) ==
  /\ pc = "parse"
  /\ LET r == parseMessage(parser, lines[idx])
     IN IF r.threw
        THEN /\ parser' = r.parser
             /\ pc' = "threw"
             /\ UNCHANGED <<idx, messages, emitted>>
        ELSE /\ parser' = r.parser
             /\ emitted' = emitted \o r.emit
             /\ messages' = IF r.emit # <<>> THEN Group(messages, r.emit[1])
                            ELSE messages
             /\ idx' = idx + 1
             /\ pc' = IF idx = Len(lines) THEN next_pc ELSE "parse"
  /\ UNCHANGED <<first, input, svdPath, stderr, lines, batches, calls, failed>>

(***************************************************************************)
(* uploadResult (src/src/main.ts).  A call of the check-run API either     *)
(* succeeds or raises; ok records which.                                   *)
(***************************************************************************)
ApiCall(op, status, conclusion, text, annotations, ok) ==
  [op |-> op, status |-> status, conclusion |-> conclusion, text |-> text,
   annotations |-> annotations, ok |-> ok]

CancelText == "Check was cancelled due to unhandled error. Check the Action logs for details."

\* a create inside the try block
Create_Caught ==
  /\ pc = "create"
  /\ \E ok \in BOOLEAN :
       /\ calls' = Append(calls, ApiCall("create", "in_progress", "none", "none", <<>>, ok))
       /\ pc' = IF ok THEN "loop" ELSE "cancel"
  /\ UNCHANGED <<first, input, svdPath, stderr, lines, idx, parser, messages, emitted,
                 batches, failed>>

\* client.checks.create, outside the try block
Create ==
  /\ pc = "create"
  /\ \E ok \in BOOLEAN :
       /\ calls' = Append(calls, ApiCall("create", "in_progress", "none", "none", <<>>, ok))
       /\ pc' = IF ok THEN "loop" ELSE "threw"
  /\ UNCHANGED <<first, input, svdPath, stderr, lines, idx, parser, messages, emitted,
                 batches, failed>>

\* an iteration that goes on with the next bucket when the update raised
BatchUpdate_Swallow ==
  /\ pc = "loop"
  /\ Len(messages) > 0
  /\ LET r == getAnnotations(svdPath, messages)
     IN /\ batches' = Append(batches, [null |-> r.null, annotations |-> r.annotations])
        /\ messages' = r.messages
        /\ IF r.null
           THEN pc' = "complete" /\ calls' = calls
           ELSE \E ok \in BOOLEAN :
                  /\ calls' = Append(calls, ApiCall("update", "in_progress", "none",
                                                    "hello world", r.annotations, ok))
                  /\ pc' = "loop"
  /\ UNCHANGED <<first, input, svdPath, stderr, lines, idx, parser, emitted, failed>>

\* one iteration of the while loop: a bucket is taken and sent
BatchUpdate ==
  /\ pc = "loop"
  /\ Len(messages) > 0
  /\ LET r == getAnnotations(svdPath, messages)
     IN /\ batches' = Append(batches, [null |-> r.null, annotations |-> r.annotations])
        /\ messages' = r.messages
        /\ IF r.null
           THEN pc' = "complete" /\ calls' = calls
           ELSE \E ok \in BOOLEAN :
                  /\ calls' = Append(calls, ApiCall("update", "in_progress", "none",
                                                    "hello world", r.annotations, ok))
                  /\ pc' = IF ok THEN "loop" ELSE "cancel"
  /\ UNCHANGED <<first, input, svdPath, stderr, lines, idx, parser, emitted, failed>>

\* a completion that concludes with success
Complete_Success ==
  /\ \/ pc = "loop" /\ Len(messages) = 0
     \/ pc = "complete"
  /\ \E ok \in BOOLEAN :
       /\ calls' = Append(calls, ApiCall("update", "completed", "success",
                                         "hello world - completed", <<>>, ok))
       /\ pc' = IF ok THEN "done" ELSE "cancel"
  /\ UNCHANGED <<first, input, svdPath, stderr, lines, idx, parser, messages, emitted,
                 batches, failed>>

\* the loop is left and the check-run is completed
Complete ==
  /\ \/ pc = "loop" /\ Len(messages) = 0
     \/ pc = "complete"
  /\ \E ok \in BOOLEAN :
       /\ calls' = Append(calls, ApiCall("update", "completed", "neutral",
                                         "hello world - completed", <<>>, ok))
       /\ pc' = IF ok THEN "done" ELSE "cancel"
  /\ UNCHANGED <<first, input, svdPath, stderr, lines, idx, parser, messages, emitted,
                 batches, failed>>

\* a catch block after which the run is completed all the same
Cancel_ThenComplete ==
  /\ pc = "cancel"
  /\ \E ok \in BOOLEAN :
       /\ calls' = Append(calls, ApiCall("update", "completed", "cancelled",
                                         CancelText, <<>>, ok))
       /\ pc' = IF ok THEN "complete" ELSE "threw"
  /\ UNCHANGED <<first, input, svdPath, stderr, lines, idx, parser, messages, emitted,
                 batches, failed>>

\* the catch block
Cancel ==
  /\ pc = "cancel"
  /\ \E ok \in BOOLEAN :
       /\ calls' = Append(calls, ApiCall("update", "completed", "cancelled",
                                         CancelText, <<>>, ok))
       /\ pc' = IF ok THEN "done" ELSE "threw"
  /\ UNCHANGED <<first, input, svdPath, stderr, lines, idx, parser, messages, emitted,
                 batches, failed>>

Next ==
  \/ Install
  \/ Run
  \/ ParseLine("create")
  \/ Create
  \/ BatchUpdate
  \/ Complete
  \/ Cancel

Spec == Init /\ [][Next]_vars

(***************************************************************************)
(* The batcher on its own: the mapping an aggregation produced is handed   *)
(* to getAnnotations again and again, also after it has become empty.      *)
(***************************************************************************)
NullReturns == Cardinality({i \in 1..Len(batches) : batches[i].null})

CallGetAnnotations ==
  /\ pc = "drain"
  /\ NullReturns < MaxEmptyCalls
  /\ LET r == getAnnotations(svdPath, messages)
     IN /\ batches' = Append(batches, [null |-> r.null, annotations |-> r.annotations])
        /\ messages' = r.messages
  /\ UNCHANGED <<first, pc, input, svdPath, stderr, lines, idx, parser, emitted, calls,
                 failed>>

NextBatcher ==
  \/ Install
  \/ Run
  \/ ParseLine("drain")
  \/ CallGetAnnotations

SpecBatcher == Init /\ [][NextBatcher]_vars

(***************************************************************************)
(* The aggregation run twice on the same buffer: SVDConv.parseMessages is  *)
(* called again with the text it was given before.                         *)
(***************************************************************************)
\* a second aggregation by the parser that did the first
Reparse_SameParser ==
  /\ pc = "again"
  /\ first' = [done |-> TRUE, messages |-> messages, stats |-> parser.stats]
  /\ parser' = [parser EXCEPT !.state = NOISE]
  /\ lines' = split(Buffer(input))
  /\ idx' = 1
  /\ messages' = <<>>
  /\ emitted' = <<>>
  /\ pc' = "parse"
  /\ UNCHANGED <<input, svdPath, stderr, batches, calls, failed>>

\* SVDConv.parseMessages once more: a new SVDConvParser, whose parseMessages
\* sets the state, splits the buffer and starts from an empty Map
Reparse ==
  /\ pc = "again"
  /\ first' = [done |-> TRUE, messages |-> messages, stats |-> parser.stats]
  /\ parser' = [NewParser EXCEPT !.state = NOISE]
  /\ lines' = split(Buffer(input))
  /\ idx' = 1
  /\ messages' = <<>>
  /\ emitted' = <<>>
  /\ pc' = "parse"
  /\ UNCHANGED <<input, svdPath, stderr, batches, calls, failed>>

NextTwice ==
  \/ Install
  \/ Run
  \/ ParseLine(IF first.done THEN "twice" ELSE "again")
  \/ Reparse

SpecTwice == Init /\ [][NextTwice]_vars

(***************************************************************************)
(* Vocabulary of the properties.                                           *)
(***************************************************************************)
\* parseMessages has gone through every line and returned its Result
Aggregated == lines # <<>> /\ idx > Len(lines)

\* the level the specification assigns to a severity keyword
ExpectedLevel(severity) ==
  CASE severity = <<"I","N","F","O">> -> <<"i","n","f","o">>
    [] severity = <<"E","R","R","O","R">> -> <<"e","r","r","o","r">>
    [] severity = <<"W","A","R","N","I","N","G">> -> <<"w","a","r","n","i","n","g">>

\* the input is made of two-line blocks only: a header, then a line of text
\* (the generated blocks are such blocks)
WellFormedInput(d) ==
  /\ InputLength(d) > 0
  /\ Len(d.ids) % 2 = 0
  /\ \A i \in 1..Len(d.ids) :
       IF i % 2 = 1 THEN Corpus[d.ids[i]].kind = "header"
       ELSE Corpus[d.ids[i]].kind \in {"description", "noise", "empty"}

\* C1: on a buffer made only of well-formed two-line blocks the parser never
\* raises and, block after block, returns one Message whose level is the
\* lower-cased severity keyword of the block's header, whose code is the
\* header's code and whose message is the trimmed description line.
C1_OneMessagePerBlock ==
  (lines # <<>> /\ WellFormedInput(input)) =>
    /\ pc = "threw" => Aggregated
    /\ Len(emitted) = (idx - 1) \div 2
    /\ Aggregated =>
         /\ Len(emitted) = InputLength(input) \div 2
         /\ \A k \in 1..Len(emitted) :
              /\ emitted[k].level = ExpectedLevel(LineOf(input, 2 * k - 1).severity)
              /\ emitted[k].code = LineOf(input, 2 * k - 1).code
              /\ emitted[k].message = LineOf(input, 2 * k).trimmed

\* several blocks of all three severities were aggregated, with blanks
\* around the descriptions
C1_Witness ==
  /\ Aggregated
  /\ WellFormedInput(input)
  /\ Len(emitted) >= 3
  /\ \E k \in 1..Len(emitted) : emitted[k].message # LineOf(input, 2 * k).text
  /\ {emitted[k].level : k \in 1..3} =
       {<<"i","n","f","o">>, <<"e","r","r","o","r">>, <<"w","a","r","n","i","n","g">>}

\* the mapping holds the Message in the group with key k
InGroup(m, k, message) ==
  \E i \in 1..Len(m) :
    m[i].key = k /\ \E j \in 1..Len(m[i].ary) : m[i].ary[j] = message

\* C2: whatever free text stands before it, a '(Line N)' suffix makes the
\* Message carry line N and be grouped under N (and only a header without
\* the suffix gets the unknown line), and the annotation gets start_line =
\* end_line = N.
C2_SuffixGivesLine ==
  (lines # <<>> /\ WellFormedInput(input)) =>
    /\ Len(emitted) > 0 =>
         emitted[Len(emitted)].line = LineOf(input, 2 * Len(emitted) - 1).suffix
    /\ pc \in {"create", "drain"} /\ batches = <<>> =>
         \A k \in 1..Len(emitted) :
           InGroup(messages, LineOf(input, 2 * k - 1).suffix, emitted[k])
    /\ \A b \in 1..Len(batches) : \A a \in 1..Len(batches[b].annotations) :
         \E k \in 1..Len(emitted) :
           LET suffix == LineOf(input, 2 * k - 1).suffix
               an == batches[b].annotations[a]
           IN /\ an.message = emitted[k].code \o <<":"," ">> \o emitted[k].message
              /\ an.start_line = (IF suffix = NaN THEN 0 ELSE suffix)
              /\ an.end_line = an.start_line

\* the lines among ls that match the header pattern with a severity
HeaderLines(ls, severity) ==
  {i \in 1..Len(ls) : ls[i].kind = "header" /\ ls[i].severity = severity}

RunStart(ls, i) ==
  CHOOSE s \in 1..i :
    /\ \A j \in s..i : ls[j].kind = "header"
    /\ s = 1 \/ ls[s - 1].kind # "header"

\* the header lines that are read as headers: in a run of consecutive header
\* lines the first, third, ... are; the second, fourth, ... are taken as the
\* description of the header right before them
HeadersRead(ls, severity) ==
  {i \in HeaderLines(ls, severity) : (i - RunStart(ls, i)) % 2 = 0}

SeqBag(q) ==
  [x \in {q[i] : i \in 1..Len(q)} |-> Cardinality({i \in 1..Len(q) : q[i] = x})]

\* the Messages a mapping holds, as <<entry, position>> pairs
MessageSlots(m) ==
  UNION {{<<i, j>> : j \in 1..Len(m[i].ary)} : i \in 1..Len(m)}

\* how many Messages a mapping holds
MessageCount(m) == Cardinality(MessageSlots(m))

\* ceil(n / 50)
CeilBatches(n) == (n + 49) \div 50

\* the annotations of all the batches returned so far, one after the other
RECURSIVE AnnotationsFrom(_, _)
AnnotationsFrom(bs, i) ==
  IF i > Len(bs) THEN <<>> ELSE bs[i].annotations \o AnnotationsFrom(bs, i + 1)

\* C4: every call of getAnnotations returns null or a list of at least 1 and
\* at most 50 annotations.
C4_BatchBounded ==
  \A i \in 1..Len(batches) :
    IF batches[i].null THEN batches[i].annotations = <<>>
    ELSE Len(batches[i].annotations) >= 1 /\ Len(batches[i].annotations) <= 50

\* the calls so far returned a full batch, a shorter one and null
C4_Witness ==
  /\ pc = "drain"
  /\ Len(batches) = 3
  /\ Len(batches[1].annotations) = 50
  /\ Len(batches[2].annotations) = 1
  /\ batches[3].null

\* C5: a mapping that aggregation left with n > 0 Messages is emptied by
\* exactly ceil(n / 50) calls; each call but the last returns 50 annotations,
\* the last n - 50 * (ceil(n / 50) - 1).
C5_DrainedInCeilCalls ==
  (pc = "drain" /\ Len(emitted) > 0) =>
    LET n == Len(emitted)
        c == CeilBatches(n)
    IN /\ \A i \in 1..Len(batches) :
            /\ i < c => ~batches[i].null /\ Len(batches[i].annotations) = 50
            /\ i = c => ~batches[i].null
                        /\ Len(batches[i].annotations) = n - 50 * (c - 1)
            /\ i > c => batches[i].null
       /\ (messages = <<>>) <=> (Len(batches) >= c)

\* 120 Messages on distinct lines went out as batches of 50, 50 and 20
C5_Witness ==
  /\ pc = "drain"
  /\ Len(emitted) = 120
  /\ Len(messages) = 0
  /\ input.mod = 1000
  /\ Len(batches) = 3
  /\ Len(batches[1].annotations) = 50
  /\ Len(batches[2].annotations) = 50
  /\ Len(batches[3].annotations) = 20

\* the annotation each Message of a sequence stands for
AnnotationsOf(ms) == [k \in 1..Len(ms) |-> Annotation(svdPath, ms[k].line, ms[k])]

\* the Messages the entries lo..hi of a mapping hold
RECURSIVE Remaining(_, _, _)
Remaining(m, lo, hi) ==
  IF lo > hi THEN <<>>
  ELSE IF lo = hi THEN m[lo].ary
  ELSE LET mid == (lo + hi) \div 2
       IN Remaining(m, lo, mid) \o Remaining(m, mid + 1, hi)

\* C6: while a mapping is drained, the annotations returned so far together
\* with the Messages still in the mapping are exactly the Messages the mapping
\* held before the first call, each once; and once as many annotations were
\* returned as there were Messages, the mapping has no keys.
C6_EachMessageOnce ==
  pc = "drain" =>
    /\ SeqBag(AnnotationsFrom(batches, 1)) (+) SeqBag(AnnotationsOf(Remaining(messages, 1, Len(messages))))
         = SeqBag(AnnotationsOf(emitted))
    /\ Len(AnnotationsFrom(batches, 1)) = Len(emitted) => messages = <<>>

\* a mapping with several keys and several Messages under each was drained
\* by more than one non-empty batch
C6_Witness ==
  /\ pc = "drain"
  /\ input.mod = 3
  /\ Len(emitted) = 51
  /\ Len(batches) = 2
  /\ ~batches[2].null
  /\ messages = <<>>

\* C7: getAnnotations returns null exactly when the mapping holds no Message
\* at the call, and then leaves the mapping as it is; a mapping with a
\* Message gives a non-empty batch.
C7_NullIffEmpty ==
  [][(pc = "drain" /\ Len(batches') = Len(batches) + 1) =>
       LET ret == batches'[Len(batches')]
       IN /\ ret.null <=> MessageCount(messages) = 0
          /\ ret.null => messages' = messages
          /\ MessageCount(messages) > 0 => Len(ret.annotations) >= 1]_vars

\* a non-empty batch emptied the mapping and the next call returned null
C7_Witness ==
  /\ pc = "drain"
  /\ Len(batches) = 2
  /\ ~batches[1].null
  /\ batches[2].null
  /\ messages = <<>>

\* the annotation level the specification assigns to a level
ExpectedAnnotationLevel(level) ==
  CASE level = <<"i","n","f","o">> -> "notice"
    [] level = <<"w","a","r","n","i","n","g">> -> "warning"
    [] level = <<"e","r","r","o","r">> -> "failure"

\* C8: the annotation built from a Message has level notice for info, warning
\* for warning and failure for error, so that every level sent is one the
\* check-run API accepts.
C8_LevelsAccepted ==
  \A c \in 1..Len(calls) : \A a \in 1..Len(calls[c].annotations) :
    LET an == calls[c].annotations[a]
    IN /\ an.annotation_level \in {"notice", "warning", "failure"}
       /\ \E k \in 1..Len(emitted) :
            /\ an.message = emitted[k].code \o <<":"," ">> \o emitted[k].message
            /\ an.annotation_level = ExpectedAnnotationLevel(emitted[k].level)

\* C9: an annotation built from a Message m of the group with key k has the
\* path given to getAnnotations, start_line = end_line = k (0 when k is the
\* unknown line) and the message m.code, ': ', m.message.
C9_AnnotationFields ==
  [][(pc = "drain" /\ Len(batches') = Len(batches) + 1) =>
       LET ret == batches'[Len(batches')]
       IN \A a \in 1..Len(ret.annotations) :
            \E s \in MessageSlots(messages) :
              LET k == messages[s[1]].key
                  m == messages[s[1]].ary[s[2]]
                  an == ret.annotations[a]
              IN /\ an.path = svdPath
                 /\ an.start_line = (IF k = NaN THEN 0 ELSE k)
                 /\ an.end_line = an.start_line
                 /\ an.message = m.code \o <<":"," ">> \o m.message]_vars

\* a Message without a line number was turned into an annotation at line 0
C9_Witness ==
  /\ pc = "drain"
  /\ svdPath = "b.svd"
  /\ Len(emitted) = 1
  /\ emitted[1].line = NaN
  /\ Len(batches) = 1
  /\ batches[1].annotations[1].start_line = 0
  /\ batches[1].annotations[1].message =
       <<"M","1",":"," ","t","o","o"," ","w","i","d","e",".">>

(***************************************************************************)
(* The uploader.                                                           *)
(***************************************************************************)
\* every check-run call issued so far succeeded
AllCallsOk == \A i \in 1..Len(calls) : calls[i].ok

\* the annotations of the calls i.. , one after the other
RECURSIVE SentFrom(_, _)
SentFrom(cs, i) ==
  IF i > Len(cs) THEN <<>> ELSE cs[i].annotations \o SentFrom(cs, i + 1)

\* the annotation messages the specification expects for the parsed Messages
ExpectedTexts(ms) == [k \in 1..Len(ms) |-> ms[k].code \o <<":"," ">> \o ms[k].message]

\* C10: while every check-run call succeeds, uploadResult on a Result with n
\* Messages issues one create with status in_progress, then ceil(n / 50)
\* updates with status in_progress that carry annotations, then one update
\* with status completed and conclusion neutral, and returns; the annotations
\* sent are those of the parsed Messages, each once.
C10_CallSequence ==
  (AllCallsOk /\ calls # <<>>) =>
    LET c == CeilBatches(Len(emitted))
    IN /\ calls[1].op = "create" /\ calls[1].status = "in_progress"
       /\ Len(calls) <= c + 2
       /\ \A i \in 2..Len(calls) :
            /\ calls[i].op = "update"
            /\ i <= c + 1 => /\ calls[i].status = "in_progress"
                             /\ calls[i].conclusion = "none"
                             /\ Len(calls[i].annotations) >= 1
            /\ i = c + 2 => /\ calls[i].status = "completed"
                            /\ calls[i].conclusion = "neutral"
                            /\ calls[i].annotations = <<>>
       /\ (pc = "done") <=> (Len(calls) = c + 2)
       /\ pc = "done" =>
            LET sent == SentFrom(calls, 1)
            IN SeqBag([k \in 1..Len(sent) |-> sent[k].message])
                 = SeqBag(ExpectedTexts(emitted))

\* 120 Messages were uploaded by a create, three updates and the completion
C10_Witness ==
  /\ pc = "done"
  /\ AllCallsOk
  /\ Len(emitted) = 120
  /\ Len(calls) = 5
  /\ calls[5].conclusion = "neutral"

\* the call is the update of the catch block
IsCancellation(call) ==
  /\ call.op = "update"
  /\ call.status = "completed"
  /\ call.conclusion = "cancelled"
  /\ call.text = "Check was cancelled due to unhandled error. Check the Action logs for details."
  /\ call.annotations = <<>>

\* C11: when an in_progress update or the completed/neutral update raises,
\* no further batch is sent; the next call is the update with status
\* completed, conclusion cancelled and the fixed text, and it is the last.
C11_FailureCancels ==
  \A i \in 1..Len(calls) :
    (calls[i].op = "update" /\ calls[i].conclusion # "cancelled" /\ ~calls[i].ok) =>
      /\ Len(calls) <= i + 1
      /\ Len(calls) = i => pc = "cancel"
      /\ Len(calls) = i + 1 => IsCancellation(calls[i + 1]) /\ pc \in {"done", "threw"}

\* the first batch went through, the second raised, the run was cancelled
\* and Messages are left in the mapping
C11_Witness ==
  /\ pc = "done"
  /\ Len(calls) = 4
  /\ calls[2].ok
  /\ calls[3].status = "in_progress" /\ ~calls[3].ok
  /\ IsCancellation(calls[4]) /\ calls[4].ok
  /\ Len(calls[2].annotations) = 50
  /\ messages # <<>>

\* C12 as stated: an error raised by create is followed by the cancellation
\* update, and an error leaves uploadResult only when that update failed.
C12_CreateErrorCaught ==
  (calls # <<>> /\ ~calls[1].ok /\ pc \in {"done", "threw"}) =>
    /\ Len(calls) = 2
    /\ IsCancellation(calls[2])
    /\ pc = "threw" <=> ~calls[2].ok

\* C12 amended: an error raised by create leaves uploadResult at once, with
\* no further check-run call; an error raised by an update is followed by the
\* cancellation update; and whenever an error leaves uploadResult, the last
\* call is a failed create or a failed cancellation update.
C12_CreateErrorPropagates ==
  /\ (calls # <<>> /\ ~calls[1].ok) => Len(calls) = 1 /\ pc = "threw"
  /\ (pc = "threw" /\ calls # <<>>) =>
       /\ ~calls[Len(calls)].ok
       /\ \/ Len(calls) = 1 /\ calls[1].op = "create"
          \/ IsCancellation(calls[Len(calls)])
  /\ \A i \in 2..Len(calls) :
       (~calls[i].ok /\ ~IsCancellation(calls[i]) /\ pc \in {"done", "threw"}) =>
         Len(calls) = i + 1 /\ IsCancellation(calls[i + 1])

\* the create call raised after a successful aggregation of Messages
C12_Witness ==
  /\ pc = "threw"
  /\ Len(calls) = 1
  /\ calls[1].op = "create" /\ ~calls[1].ok
  /\ Len(emitted) > 0

\* C13: when the tool writes to standard error, run returns no Result, the
\* standard output is not parsed and no check-run call is made.
C13_StderrNoUpload ==
  stderr =>
    /\ calls = <<>>
    /\ lines = <<>>
    /\ emitted = <<>>
    /\ messages = <<>>
    /\ parser = NewParser
    /\ pc = "done"

\* standard error was written while standard output held a well-formed block
C13_Witness ==
  /\ stderr
  /\ pc = "done"
  /\ WellFormedInput(input)
  /\ input.blocks = 120

\* C14: when the tool writes to standard error, the step ends in a reported
\* failure.
C14_StderrReportsFailure ==
  (stderr /\ pc \in {"done", "threw"}) => (failed \/ pc = "threw")

(***************************************************************************)
(* The parser on unexpected output.                                        *)
(***************************************************************************)
\* line i of ls is a header line that is read as a header
ReadAsHeader(ls, i) ==
  ls[i].kind = "header" /\ (i - RunStart(ls, i)) % 2 = 0

\* the lines beginning with the marker that do not match the header pattern
MalformedLines(ls) == {i \in 1..Len(ls) : ls[i].kind = "malformed"}

\* the malformed lines that do not stand right after a line read as a header
UnreadMalformedLines(ls) ==
  {i \in MalformedLines(ls) : ~(i > 1 /\ ReadAsHeader(ls, i - 1))}

\* C15 as stated: a buffer with a line that begins with the marker and does
\* not match the header pattern, at any position, is never aggregated and no
\* check-run call is made for it.
C15_MalformedAlwaysFatal ==
  (lines # <<>> /\ MalformedLines(InputLines(input)) # {}) =>
    ~Aggregated /\ calls = <<>>

\* C15 amended: a line that begins with the marker and does not match the
\* header pattern makes the aggregation raise, with no check-run call, unless
\* it stands right after a line read as a header; then it is taken as that
\* header's description.  The aggregation raises on the first such line and
\* on no other line.
C15_UnreadMalformedFatal ==
  lines # <<>> =>
    LET unread == UnreadMalformedLines(InputLines(input))
    IN /\ unread # {} =>
            LET fatal == CHOOSE i \in unread : \A j \in unread : i <= j
            IN /\ idx <= fatal
               /\ pc \in {"parse", "threw"}
               /\ pc = "threw" => idx = fatal
               /\ calls = <<>> /\ batches = <<>>
       /\ (unread = {} /\ pc = "threw") => Aggregated /\ calls # <<>>

\* a malformed line was taken as the description of the header before it, and
\* the next malformed line made the aggregation raise
C15_Witness ==
  /\ pc = "threw"
  /\ input.ids = <<1, 8, 8>>
  /\ idx = 3
  /\ Len(emitted) = 1 /\ emitted[1].message = Corpus[8].text
  /\ calls = <<>>

\* C16: when the buffer ends right after its last header line, with or
\* without a final newline character, the aggregation succeeds, no Message is
\* emitted for that header (one Message less than headers read) and every
\* header read is counted.
C16_DanglingHeaderDropped ==
  Aggregated =>
    LET ls == InputLines(input)
        n == Len(ls)
        read == {i \in 1..n : ReadAsHeader(ls, i)}
    IN (n > 0 /\ n \in read) =>
         /\ pc # "threw" \/ calls # <<>>
         /\ parser.stats.notes + parser.stats.warnings + parser.stats.errors
              = Cardinality(read)
         /\ Len(emitted) = Cardinality(read) - 1

C19_NoiseLineChangesNothing ==
  [][(/\ pc = "parse"
      /\ parser.state = NOISE
      /\ \/ idx > InputLength(input)
         \/ LineOf(input, idx).kind \in {"description", "noise", "empty"})
     => /\ pc' # "threw"
        /\ emitted' = emitted
        /\ messages' = messages
        /\ parser' = parser]_vars

\* a block was read, then a line of noise
C19_Witness ==
  /\ Aggregated
  /\ input.ids = <<1, 5, 6>>
  /\ parser.state = NOISE
  /\ parser.code = Corpus[1].code /\ parser.line = 12
  /\ parser.stats.warnings = 1
  /\ Len(emitted) = 1

\* C20: the three counters add up to the number of Messages emitted so far,
\* plus one while the parser awaits a description line.
C20_CountersFollowMessages ==
  parser.stats.notes + parser.stats.warnings + parser.stats.errors
    = Len(emitted) + (IF parser.state = DESCRIPTION_LINE THEN 1 ELSE 0)

\* headers of all three severities were counted and the last one awaits its
\* description
C20_Witness ==
  /\ parser.state = DESCRIPTION_LINE
  /\ Len(emitted) >= 3
  /\ parser.stats.notes > 0 /\ parser.stats.warnings > 0 /\ parser.stats.errors > 0
  /\ parser.stats.notes + parser.stats.warnings + parser.stats.errors = Len(emitted) + 1

C21_GroupsNonEmptyAndKeyed ==
  \A i \in 1..Len(messages) :
    /\ Len(messages[i].ary) > 0
    /\ \A j \in 1..Len(messages[i].ary) : messages[i].ary[j].line = messages[i].key

\* getAnnotations has emptied and deleted the first group and taken part of
\* the second; two groups are left
C21_Witness ==
  /\ pc = "drain"
  /\ input.blocks = 120 /\ input.mod = 3
  /\ Len(batches) = 1 /\ Len(batches[1].annotations) = 50
  /\ Len(messages) = 2
  /\ Len(messages[1].ary) = 30 /\ Len(messages[2].ary) = 40

\* C22: no check-run call is issued after an update with status completed
\* has succeeded (so at most one completed update succeeds), and the update
\* with conclusion neutral is never issued after an update call has failed.
C22_CompletedIsFinal ==
  /\ \A i \in 1..Len(calls) :
       (calls[i].op = "update" /\ calls[i].status = "completed" /\ calls[i].ok) =>
         i = Len(calls) /\ pc = "done"
  /\ Cardinality({i \in 1..Len(calls) :
                    calls[i].op = "update" /\ calls[i].status = "completed"
                      /\ calls[i].ok}) <= 1
  /\ \A i \in 1..Len(calls) : \A j \in (i + 1)..Len(calls) :
       (calls[i].op = "update" /\ ~calls[i].ok) =>
         ~(calls[j].status = "completed" /\ calls[j].conclusion = "neutral")

\* the completed/neutral update raised after a batch went through, and the
\* cancellation update succeeded
C22_Witness ==
  /\ pc = "done"
  /\ Len(calls) = 4
  /\ calls[2].status = "in_progress" /\ calls[2].ok
  /\ calls[3].status = "completed" /\ calls[3].conclusion = "neutral" /\ ~calls[3].ok
  /\ calls[4].status = "completed" /\ calls[4].conclusion = "cancelled" /\ calls[4].ok

====
